---- MODULE Spec2Model ----
(***************************************************************************)
(* Model of trustyai.explainers.lime: the LimeExplainer wrapper around the *)
(* Java LIME engine and the LimeResults views (map, as_dataframe, as_html, *)
(* plot, _get_bokeh_plot_dict).                                            *)
(***************************************************************************)
EXTENDS Integers, Sequences, FiniteSets, TLC

VARIABLES explainers, pc, cur, log, engineCalls, explainCalls, result, view, firstMap

vars == <<explainers, pc, cur, log, engineCalls, explainCalls, result, view, firstMap>>

explainerVars == <<explainers, pc, cur, log, engineCalls, explainCalls>>

\* ------------------------------------------------------------------ bounds
\* total number of per-feature importance records of a hand-built result
MaxRecords == 2
\* number of explain calls in one behaviour
MaxCalls == 3
\* the LimeExplainer instances of one behaviour, in order of construction
ExplainerIds == {1, 2}

\* ------------------------------------------------------------------ doubles
\* A Java double / Python float: either NaN or a (small) number.
F(n) == [nan |-> FALSE, v |-> n]
NaN == [nan |-> TRUE, v |-> 0]

\* IEEE-754 comparisons: every ordered comparison with NaN is false.
FLt(x, y) == ~x.nan /\ ~y.nan /\ x.v < y.v
FGe(x, y) == ~x.nan /\ ~y.nan /\ x.v >= y.v

\* ------------------------------------------------------------------ Python dict
\* A dict is kept as the sequence of its <<key, value>> pairs in insertion order.
DictKeys(d) == {d[i][1] : i \in DOMAIN d}
DictHas(d, k) == k \in DictKeys(d)
DictGet(d, k) == d[CHOOSE i \in DOMAIN d : d[i][1] = k][2]
\* d[k] = v : overwrite in place when k is present, append otherwise
DictSet(d, k, v) ==
    IF DictHas(d, k)
    THEN [i \in DOMAIN d |-> IF d[i][1] = k THEN <<k, v>> ELSE d[i]]
    ELSE Append(d, <<k, v>>)
DictKeySeq(d) == [i \in DOMAIN d |-> d[i][1]]
DictValueSeq(d) == [i \in DOMAIN d |-> d[i][2]]

\* ------------------------------------------------------------------ style
\* DEFAULT_STYLE of trustyai.utils._visualisation
DEFAULT_STYLE ==
    <<  <<"positive_primary_colour", "#13ba3c">>,
        <<"negative_primary_colour", "#ee0000">>,
        <<"neutral_primary_colour", "#ffffff">> >>
ds(key) == DictGet(DEFAULT_STYLE, key)

\* the faded tokens looked up by the interactive chart builder
FadedStyle(key) == key \o ":token"

\* ------------------------------------------------------------------ saliency data
OutputNames == <<"A", "B">>
Decisions == {"A", "B", "C"}

\* Feature value objects and their as_number() conversion
Features ==
    {  [name |-> "f1", value |-> [kind |-> "number", n |-> 7, b |-> FALSE]],
       [name |-> "f2", value |-> [kind |-> "boolean", n |-> 0, b |-> TRUE]] }
as_number(value) ==
    CASE value.kind = "number" -> F(value.n)
      [] value.kind = "boolean" -> IF value.b THEN F(1) ELSE F(0)
      [] OTHER -> NaN

Scores == {F(0 - 1), F(0), F(1), NaN}
Confidences == {F(1)}

\* PerFeatureImportance records
PFIs == [feature : Features, score : Scores, confidence : Confidences]

RECURSIVE SeqsUpTo(_, _)
SeqsUpTo(S, n) ==
    IF n = 0 THEN {<<>>}
    ELSE LET shorter == SeqsUpTo(S, n - 1)
         IN shorter \cup {Append(s, x) : s \in {t \in shorter : Len(t) = n - 1}, x \in S}

RECURSIVE SumLen(_, _)
SumLen(f, D) ==
    IF D = {} THEN 0
    ELSE LET k == CHOOSE x \in D : TRUE IN Len(f[k]) + SumLen(f, D \ {k})

\* SaliencyResults.saliencies: a map from output name to the Saliency of that
\* output (its sequence of per-feature importance records).
StubSaliencies ==
    UNION { {s \in [D -> SeqsUpTo(PFIs, MaxRecords)] : SumLen(s, D) <= MaxRecords}
            : D \in SUBSET {OutputNames[i] : i \in DOMAIN OutputNames} }

\* java.util.Map.entrySet() iteration order
entrySet(saliencies) ==
    SelectSeq(OutputNames, LAMBDA n : n \in DOMAIN saliencies)

\* ------------------------------------------------------------------ LimeResults
LimeResults(saliencyResults) == [saliency_results |-> saliencyResults]

\* LimeResults.map(): {entry.getKey(): entry.getValue() for entry in entrySet()}
RECURSIVE mapFrom(_, _, _)
mapFrom(saliencies, order, acc) ==
    IF order = <<>> THEN acc
    ELSE mapFrom(saliencies, Tail(order),
                 DictSet(acc, Head(order), saliencies[Head(order)]))
\* variant: every entry is stored under the key of the first one
mapOneKey(self) ==
    LET order == entrySet(self.saliency_results)
    IN IF order = <<>> THEN <<>>
       ELSE <<  <<order[1], self.saliency_results[order[Len(order)]]>>  >>
map(self) ==
    mapFrom(self.saliency_results, entrySet(self.saliency_results), <<>>)

\* variant: the value column is written under the score key
outputColumnsKeyTypo(data, output, pfis) ==
    LET d1 == DictSet(data, output \o "_features",
                      [i \in DOMAIN pfis |-> pfis[i].feature.name])
        d2 == DictSet(d1, output \o "_score",
                      [i \in DOMAIN pfis |-> pfis[i].score])
        d3 == DictSet(d2, output \o "_score",
                      [i \in DOMAIN pfis |-> as_number(pfis[i].feature.value)])
    IN DictSet(d3, output \o "_confidence",
               [i \in DOMAIN pfis |-> pfis[i].confidence])

\* the four columns written for one output
outputColumns(data, output, pfis) ==
    LET d1 == DictSet(data, output \o "_features",
                      [i \in DOMAIN pfis |-> pfis[i].feature.name])
        d2 == DictSet(d1, output \o "_score",
                      [i \in DOMAIN pfis |-> pfis[i].score])
        d3 == DictSet(d2, output \o "_value",
                      [i \in DOMAIN pfis |-> as_number(pfis[i].feature.value)])
    IN DictSet(d3, output \o "_confidence",
               [i \in DOMAIN pfis |-> pfis[i].confidence])

RECURSIVE dataframeData(_, _, _)
dataframeData(self, outputs, data) ==
    IF outputs = <<>> THEN data
    ELSE dataframeData(self, Tail(outputs),
            outputColumns(data, Head(outputs), DictGet(map(self), Head(outputs))))

\* pandas.DataFrame.from_dict(data) on a dict of lists: the lists become the
\* columns; lists of unequal length raise ValueError.
DataFrame_from_dict(data) ==
    IF \A i, j \in DOMAIN data : Len(data[i][2]) = Len(data[j][2])
    THEN [raised |-> FALSE, columns |-> DictKeySeq(data), data |-> data]
    ELSE [raised |-> TRUE, columns |-> <<>>, data |-> <<>>]

\* variant: the columns are aligned on a common index, short ones padded with NaN
RECURSIVE MaxLen(_)
MaxLen(data) ==
    IF data = <<>> THEN 0
    ELSE LET m == MaxLen(Tail(data))
         IN IF Len(Head(data)[2]) > m THEN Len(Head(data)[2]) ELSE m
as_dataframeAligned(self) ==
    LET data == dataframeData(self, DictKeySeq(map(self)), <<>>)
        rows == MaxLen(data)
    IN [raised |-> FALSE, columns |-> DictKeySeq(data),
        data |-> [c \in DOMAIN data |->
                    <<data[c][1],
                      [r \in 1..rows |-> IF r <= Len(data[c][2]) THEN data[c][2][r]
                                         ELSE NaN]>>]]

\* LimeResults.as_dataframe()
as_dataframe(self) ==
    DataFrame_from_dict(dataframeData(self, DictKeySeq(map(self)), <<>>))

\* LimeResults.as_html(): self.as_dataframe().style
as_html(self) ==
    LET df == as_dataframe(self)
    IN [raised |-> df.raised, columns |-> df.columns, data |-> df.data,
        styles |-> <<>>]

\* colour of one bar of the static chart
plotColour(i) ==
    IF FLt(i, F(0)) THEN ds("negative_primary_colour")
    ELSE ds("positive_primary_colour")

RECURSIVE plotDictionary(_, _)
plotDictionary(pfis, dictionary) ==
    IF pfis = <<>> THEN dictionary
    ELSE plotDictionary(Tail(pfis),
            DictSet(dictionary, Head(pfis).feature.name, Head(pfis).score))

\* variant: a missing decision is read as an empty saliency and an empty chart drawn
plotMissingAsEmpty(self, decision) ==
    LET pfis == IF DictHas(map(self), decision) THEN DictGet(map(self), decision)
                ELSE <<>>
        dictionary == plotDictionary(pfis, <<>>)
        values == DictValueSeq(dictionary)
    IN [raised |-> FALSE, drawn |-> TRUE,
        title |-> "LIME explanation of " \o decision,
        bars |-> [i \in DOMAIN dictionary |->
                     [label |-> dictionary[i][1], width |-> values[i],
                      color |-> plotColour(values[i])]]]

\* LimeResults.plot(decision): the figure drawn, or the error raised by
\* None.getPerFeatureImportance() when decision is not mapped
plot(self, decision) ==
    IF ~DictHas(map(self), decision)
    THEN [raised |-> TRUE, drawn |-> FALSE, title |-> "", bars |-> <<>>]
    ELSE LET dictionary ==
                 plotDictionary(DictGet(map(self), decision), <<>>)
             values == DictValueSeq(dictionary)
             colours == [i \in DOMAIN values |-> plotColour(values[i])]
         IN [raised |-> FALSE, drawn |-> TRUE,
             title |-> "LIME explanation of " \o decision,
             bars |-> [i \in DOMAIN dictionary |->
                          [label |-> dictionary[i][1], width |-> values[i],
                           color |-> colours[i]]]]

\* "{:.2f}".format(x) for the doubles of the model
Digit(n) == <<"0", "1", "2", "3", "4", "5", "6", "7", "8", "9">>[n + 1]
Format2f(x) ==
    IF x.nan THEN "nan"
    ELSE IF x.v < 0 THEN "-" \o Digit(0 - x.v) \o ".00"
    ELSE Digit(x.v) \o ".00"

bold_green_html(text) == [style |-> "bold_green", text |-> text]
bold_red_html(text) == [style |-> "bold_red", text |-> text]

\* the "color" column of the interactive chart
bokehColour(x) ==
    IF FGe(x, F(0)) THEN ds("positive_primary_colour")
    ELSE ds("negative_primary_colour")
bokehSaliencyColoured(x) ==
    IF FGe(x, F(0)) THEN bold_green_html(Format2f(x)) ELSE bold_red_html(Format2f(x))
bokehColourFaded(x) ==
    IF FGe(x, F(0)) THEN FadedStyle("positive_primary_colour_faded")
    ELSE FadedStyle("negative_primary_colour_faded")

\* one chart of the interactive builder: the rows of its data source
bokehPlot(output_name, pfis) ==
    [title |-> "Lime Feature Importances",
     output |-> output_name,
     rows |-> [i \in DOMAIN pfis |->
                 [feature |-> pfis[i].feature.name,
                  saliency |-> pfis[i].score,
                  color |-> bokehColour(pfis[i].score),
                  saliency_colored |-> bokehSaliencyColoured(pfis[i].score),
                  color_faded |-> bokehColourFaded(pfis[i].score)]]]

RECURSIVE bokehDict(_, _)
bokehDict(items, plot_dict) ==
    IF items = <<>> THEN plot_dict
    ELSE bokehDict(Tail(items),
            DictSet(plot_dict, Head(items)[1], bokehPlot(Head(items)[1], Head(items)[2])))

\* LimeResults._get_bokeh_plot_dict(): an output without records leaves the
\* DataFrame without a "saliency" column, and reading it raises KeyError
get_bokeh_plot_dict(self) ==
    IF \E i \in DOMAIN map(self) : map(self)[i][2] = <<>>
    THEN [raised |-> TRUE, plots |-> <<>>]
    ELSE [raised |-> FALSE, plots |-> bokehDict(map(self), <<>>)]

\* no LimeResults object is held yet
NoResult == [none |-> TRUE]
hasResult == "saliency_results" \in DOMAIN result
NoView == [op |-> "none", arg |-> "", ret |-> <<>>]
NoMap == [set |-> FALSE, value |-> <<>>]

\* ------------------------------------------------------------------ LimeExplainer
\* keyword options read by the constructor, and two names it does not read
KnownOptions ==
    {"penalise_sparse_balance", "normalise_weights", "use_wlr_model", "seed",
     "perturbations", "track_counterfactuals"}
OptionValues(name) ==
    CASE name \in {"penalise_sparse_balance", "normalise_weights", "use_wlr_model",
                   "track_counterfactuals", "trackCounterfactuals"} -> BOOLEAN
      [] name = "seed" -> {0, 7}
      [] name = "perturbations" -> {1, 2}
      [] OTHER -> {3}
AllOptionNames == KnownOptions \cup {"trackCounterfactuals", "verbose"}

\* every kwargs dict over a set of option names
RECURSIVE KwargsOver(_)
KwargsOver(names) ==
    IF names = {} THEN {<<>>}
    ELSE LET n == CHOOSE x \in names : TRUE
             rest == KwargsOver(names \ {n})
         IN rest \cup {[x \in DOMAIN k \cup {n} |-> IF x = n THEN v ELSE k[x]] :
                          k \in rest, v \in OptionValues(n)}

\* the samples argument: omitted, or given positionally
SampleArgs == {[given |-> FALSE, v |-> 0], [given |-> TRUE, v |-> 5], [given |-> TRUE, v |-> 20]}

\* kwargs.get(key, default)
kwargs_get(kwargs, key, default) ==
    IF key \in DOMAIN kwargs THEN kwargs[key] ELSE default

\* java.util.Random: the generator state is determined by the seed set and the
\* number of values drawn since
Random_setSeed(seed) == [seed |-> seed, draws |-> 0]
Random_advance(random, n) == [random EXCEPT !.draws = @ + n]

\* LimeConfig builder: every with...() call sets one field
LimeConfig ==
    [normalizeWeights |-> FALSE, noOfPerturbations |-> 0, samples |-> 0,
     encodingParams |-> <<0, 0>>, adaptiveVariance |-> FALSE,
     penalizeBalanceSparse |-> FALSE, useWLRLinearModel |-> FALSE,
     trackCounterfactuals |-> FALSE]
with(config, field, value) == [config EXCEPT ![field] = value]

\* variant: the counterfactual flag is read under its docstring name
LimeExplainer_initDocName(samples, kwargs) ==
    LET jrandom == Random_setSeed(kwargs_get(kwargs, "seed", 0))
        c1 == with(LimeConfig, "normalizeWeights",
                   kwargs_get(kwargs, "normalise_weights", FALSE))
        c2 == with(c1, "noOfPerturbations", kwargs_get(kwargs, "perturbations", 1))
        c3 == with(c2, "samples", samples)
        c4 == with(c3, "encodingParams", <<7, 30>>)
        c5 == with(c4, "adaptiveVariance", TRUE)
        c6 == with(c5, "penalizeBalanceSparse",
                   kwargs_get(kwargs, "penalise_sparse_balance", TRUE))
        c7 == with(c6, "useWLRLinearModel", kwargs_get(kwargs, "use_wlr_model", TRUE))
        c8 == with(c7, "trackCounterfactuals",
                   kwargs_get(kwargs, "trackCounterfactuals", FALSE))
    IN [jrandom |-> jrandom, lime_config |-> c8]

\* LimeExplainer.__init__(self, samples, **kwargs)
LimeExplainer_init(samples, kwargs) ==
    LET jrandom == Random_setSeed(kwargs_get(kwargs, "seed", 0))
        c1 == with(LimeConfig, "normalizeWeights",
                   kwargs_get(kwargs, "normalise_weights", FALSE))
        c2 == with(c1, "noOfPerturbations", kwargs_get(kwargs, "perturbations", 1))
        c3 == with(c2, "samples", samples)
        c4 == with(c3, "encodingParams", <<7, 30>>)
        c5 == with(c4, "adaptiveVariance", TRUE)
        c6 == with(c5, "penalizeBalanceSparse",
                   kwargs_get(kwargs, "penalise_sparse_balance", TRUE))
        c7 == with(c6, "useWLRLinearModel", kwargs_get(kwargs, "use_wlr_model", TRUE))
        c8 == with(c7, "trackCounterfactuals",
                   kwargs_get(kwargs, "track_counterfactuals", FALSE))
    IN [jrandom |-> jrandom, lime_config |-> c8]

\* LimeExplainer(samples=10, **kwargs): binding of the samples parameter
LimeExplainer(samplesArg, kwargs) ==
    LimeExplainer_init(IF samplesArg.given THEN samplesArg.v ELSE 10, kwargs)

\* ------------------------------------------------------------------ explain
\* caller-supplied inputs and outputs: well-formed feature / output vectors, or
\* a shape the conversion rejects
F1 == [name |-> "f1", value |-> [kind |-> "number", n |-> 7, b |-> FALSE]]
F2 == [name |-> "f2", value |-> [kind |-> "boolean", n |-> 0, b |-> TRUE]]
InputArgs ==
    {[ok |-> TRUE, features |-> <<F1>>], [ok |-> TRUE, features |-> <<F1, F2>>],
     [ok |-> FALSE, features |-> <<>>]}
OutputArgs ==
    {[ok |-> TRUE, names |-> <<"A">>], [ok |-> TRUE, names |-> <<"A", "B">>]}
Models == {"model"}
\* the (inputs, outputs, model) triples passed to explain
CallArgs ==
    {c \in [inputs : InputArgs, outputs : OutputArgs, model : Models] :
        Len(c.outputs.names) = 2 <=> Len(c.inputs.features) = 2}

\* simple_prediction(inputs, outputs): one paired prediction record, or the
\* conversion's error
simple_prediction(inputs, outputs) ==
    IF inputs.ok /\ outputs.ok
    THEN [raised |-> FALSE, input |-> inputs.features, output |-> outputs.names]
    ELSE [raised |-> TRUE, input |-> <<>>, output |-> <<>>]

\* The external engine. Its scores are a function of the prediction, the model,
\* the configuration and the state of the generator it is handed; the function
\* itself is left uninterpreted (two scores are equal iff all of these are).
EngineScore(prediction, model, config, random, output, i) ==
    [input |-> prediction.input, output |-> output, feature |-> i, model |-> model,
     config |-> config, seed |-> random.seed, draws |-> random.draws]
EngineSaliencies(prediction, model, config, random) ==
    [o \in {prediction.output[j] : j \in DOMAIN prediction.output} |->
        [i \in DOMAIN prediction.input |->
            [feature |-> prediction.input[i],
             score |-> EngineScore(prediction, model, config, random, o, i),
             confidence |-> F(0)]]]
\* values the engine draws from the generator for one explanation
EngineDraws(prediction, config) == config.samples * Len(prediction.input)

NoCall ==
    [self |-> 0, inputs |-> <<>>, outputs |-> <<>>, model |-> "", prediction |-> <<>>,
     random |-> <<>>, invoked |-> 0, future |-> "none", value |-> <<>>]

Init ==
    /\ explainers = <<>>
    /\ pc = "idle"
    /\ cur = NoCall
    /\ log = <<>>
    /\ engineCalls = 0
    /\ explainCalls = 0
    /\ result = NoResult
    /\ view = NoView
    /\ firstMap = NoMap

\* variant: the generator is left with the seed Random() takes from the clock,
\* different for every instance
ConstructUnseeded(samplesArg, kwargs) ==
    /\ pc = "idle"
    /\ Len(explainers) + 1 \in ExplainerIds
    /\ explainers' = Append(explainers,
            [obj |-> [LimeExplainer(samplesArg, kwargs) EXCEPT
                        !.jrandom = Random_setSeed(100 + Len(explainers))],
             args |-> [samples |-> samplesArg, kwargs |-> kwargs]])
    /\ UNCHANGED <<pc, cur, log, engineCalls, explainCalls, result, view, firstMap>>

\* variant: the constructor runs one warm-up explanation on the engine
ConstructWarmUp(samplesArg, kwargs) ==
    /\ pc = "idle"
    /\ Len(explainers) + 1 \in ExplainerIds
    /\ explainers' = Append(explainers,
            [obj |-> LimeExplainer(samplesArg, kwargs),
             args |-> [samples |-> samplesArg, kwargs |-> kwargs]])
    /\ engineCalls' = engineCalls + 1
    /\ UNCHANGED <<pc, cur, log, explainCalls, result, view, firstMap>>

\* explainer = LimeExplainer(samples, **kwargs)
Construct(samplesArg, kwargs) ==
    /\ pc = "idle"
    /\ Len(explainers) + 1 \in ExplainerIds
    /\ explainers' = Append(explainers,
            [obj |-> LimeExplainer(samplesArg, kwargs),
             args |-> [samples |-> samplesArg, kwargs |-> kwargs]])
    /\ UNCHANGED <<pc, cur, log, engineCalls, explainCalls, result, view, firstMap>>

LogEntry(call, outcome) ==
    [self |-> call.self, inputs |-> call.inputs, outputs |-> call.outputs,
     model |-> call.model, invoked |-> call.invoked, future |-> call.future,
     outcome |-> outcome, saliencies |-> call.value]

\* explain, line 282: _prediction = simple_prediction(inputs, outputs)
ExplainConvert(self, inputs, outputs, model) ==
    /\ pc = "idle"
    /\ explainCalls < MaxCalls
    /\ self \in DOMAIN explainers
    /\ explainCalls' = explainCalls + 1
    /\ LET p == simple_prediction(inputs, outputs)
           call == [NoCall EXCEPT !.self = self, !.inputs = inputs,
                                  !.outputs = outputs, !.model = model,
                                  !.prediction = p]
       IN IF p.raised
          THEN /\ log' = Append(log, LogEntry(call, "conversion_error"))
               /\ UNCHANGED <<pc, cur>>
          ELSE /\ pc' = "converted"
               /\ cur' = call
               /\ UNCHANGED log
    /\ UNCHANGED <<explainers, engineCalls, result, view, firstMap>>

\* explain, line 283: self._explainer.explainAsync(_prediction, model)
ExplainAsync ==
    /\ pc = "converted"
    /\ engineCalls' = engineCalls + 1
    /\ cur' = [cur EXCEPT !.invoked = @ + 1, !.future = "pending"]
    /\ pc' = "waiting"
    /\ UNCHANGED <<explainers, log, explainCalls, result, view, firstMap>>

\* the engine completes the future with the saliency results
EngineSucceed ==
    /\ pc = "waiting"
    /\ cur.future = "pending"
    /\ LET e == explainers[cur.self].obj
       IN /\ cur' = [cur EXCEPT !.future = "done",
                        !.value = EngineSaliencies(cur.prediction, cur.model,
                                                   e.lime_config, e.jrandom)]
          /\ explainers' = [explainers EXCEPT ![cur.self].obj.jrandom =
                Random_advance(@, EngineDraws(cur.prediction, e.lime_config))]
    /\ UNCHANGED <<pc, log, engineCalls, explainCalls, result, view, firstMap>>

\* the engine completes the future exceptionally, before or after sampling
EngineFail ==
    /\ pc = "waiting"
    /\ cur.future = "pending"
    /\ cur' = [cur EXCEPT !.future = "failed"]
    /\ \E n \in {0, EngineDraws(cur.prediction, explainers[cur.self].obj.lime_config)} :
          explainers' = [explainers EXCEPT ![cur.self].obj.jrandom = Random_advance(@, n)]
    /\ UNCHANGED <<pc, log, engineCalls, explainCalls, result, view, firstMap>>

\* variant: a failed engine call is retried once
ExplainGetRetry ==
    /\ pc = "waiting"
    /\ cur.future \in {"done", "failed"}
    /\ IF cur.future = "failed" /\ cur.invoked < 2
       THEN /\ cur' = [cur EXCEPT !.invoked = @ + 1, !.future = "pending"]
            /\ engineCalls' = engineCalls + 1
            /\ UNCHANGED <<pc, log, result, view, firstMap>>
       ELSE /\ pc' = "idle"
            /\ cur' = NoCall
            /\ UNCHANGED engineCalls
            /\ IF cur.future = "done"
               THEN /\ log' = Append(log, LogEntry(cur, "returned"))
                    /\ result' = LimeResults(cur.value)
                    /\ view' = NoView
                    /\ firstMap' = NoMap
               ELSE /\ log' = Append(log, LogEntry(cur, "engine_error"))
                    /\ UNCHANGED <<result, view, firstMap>>
    /\ UNCHANGED <<explainers, explainCalls>>

\* explain, line 283: .get() returns or raises, then LimeResults(...) is returned
ExplainGet ==
    /\ pc = "waiting"
    /\ cur.future \in {"done", "failed"}
    /\ pc' = "idle"
    /\ cur' = NoCall
    /\ IF cur.future = "done"
       THEN /\ log' = Append(log, LogEntry(cur, "returned"))
            /\ result' = LimeResults(cur.value)
            /\ view' = NoView
            /\ firstMap' = NoMap
       ELSE /\ log' = Append(log, LogEntry(cur, "engine_error"))
            /\ UNCHANGED <<result, view, firstMap>>
    /\ UNCHANGED <<explainers, engineCalls, explainCalls>>

\* ------------------------------------------------------------------ view state

\* result = LimeResults(saliencyResults): wrap a caller-built SaliencyResults
ViewInit ==
    /\ explainers = <<>>
    /\ pc = "idle"
    /\ cur = NoCall
    /\ log = <<>>
    /\ engineCalls = 0
    /\ explainCalls = 0
    /\ result \in {LimeResults(s) : s \in StubSaliencies}
    /\ view = NoView
    /\ firstMap = NoMap

\* result.map()
Map ==
    /\ pc = "idle"
    /\ hasResult
    /\ view' = [op |-> "map", arg |-> "", ret |-> map(result)]
    /\ firstMap' = IF firstMap.set THEN firstMap
                   ELSE [set |-> TRUE, value |-> map(result)]
    /\ UNCHANGED <<explainerVars, result>>

\* result.as_dataframe()
AsDataframe ==
    /\ pc = "idle"
    /\ hasResult
    /\ view' = [op |-> "as_dataframe", arg |-> "", ret |-> as_dataframe(result)]
    /\ UNCHANGED <<explainerVars, result, firstMap>>

\* result.as_html()
AsHtml ==
    /\ pc = "idle"
    /\ hasResult
    /\ view' = [op |-> "as_html", arg |-> "", ret |-> as_html(result)]
    /\ UNCHANGED <<explainerVars, result, firstMap>>

\* variant: plotting sorts the wrapped records in place (here: reverses them)
PlotSortingInPlace(decision) ==
    /\ pc = "idle"
    /\ hasResult
    /\ view' = [op |-> "plot", arg |-> decision, ret |-> plot(result, decision)]
    /\ result' =
          IF decision \in DOMAIN result.saliency_results
          THEN LimeResults([result.saliency_results EXCEPT ![decision] =
                  [i \in DOMAIN @ |-> @[Len(@) + 1 - i]]])
          ELSE result
    /\ UNCHANGED <<explainerVars, firstMap>>

\* result.plot(decision)
Plot(decision) ==
    /\ pc = "idle"
    /\ hasResult
    /\ view' = [op |-> "plot", arg |-> decision, ret |-> plot(result, decision)]
    /\ UNCHANGED <<explainerVars, result, firstMap>>

\* result._get_bokeh_plot_dict()
BokehPlotDict ==
    /\ pc = "idle"
    /\ hasResult
    /\ view' = [op |-> "bokeh", arg |-> "", ret |-> get_bokeh_plot_dict(result)]
    /\ UNCHANGED <<explainerVars, result, firstMap>>

ViewNext ==
    \/ Map
    \/ AsDataframe
    \/ AsHtml
    \/ \E decision \in Decisions : Plot(decision)
    \/ BokehPlotDict

ViewSpec == ViewInit /\ [][ViewNext]_vars

\* constructor arguments of the explainer lifecycle: seed and sample count
LifecycleArgs ==
    {a \in [samples : SampleArgs, kwargs : KwargsOver({"seed"})] :
        a.samples.given => (a.samples.v = 5 /\ a.kwargs = [n \in {"seed"} |-> 0])}

Next ==
    \/ \E a \in LifecycleArgs : Construct(a.samples, a.kwargs)
    \/ \E self \in DOMAIN explainers, c \in CallArgs :
          ExplainConvert(self, c.inputs, c.outputs, c.model)
    \/ ExplainAsync
    \/ EngineSucceed
    \/ EngineFail
    \/ ExplainGet
    \/ Map

Spec == Init /\ [][Next]_vars

\* construction alone, over every combination of keyword options
ConfigNext ==
    \E samplesArg \in SampleArgs, kwargs \in KwargsOver(AllOptionNames) :
        /\ explainers = <<>>
        /\ Construct(samplesArg, kwargs)

ConfigSpec == Init /\ [][ConfigNext]_vars

\* ================================================================== claims
\* the saliencies wrapped by the result at hand, and helpers over them
Wrapped == result.saliency_results
Ragged == \E a, b \in DOMAIN Wrapped : Len(Wrapped[a]) # Len(Wrapped[b])

\* the column group of one output, as the claim describes it
ColumnGroupOf(df, o) ==
    /\ {o \o "_features", o \o "_score", o \o "_value", o \o "_confidence"}
          \subseteq DictKeys(df.data)
    /\ DictGet(df.data, o \o "_features") =
          [i \in DOMAIN Wrapped[o] |-> Wrapped[o][i].feature.name]
    /\ DictGet(df.data, o \o "_score") =
          [i \in DOMAIN Wrapped[o] |-> Wrapped[o][i].score]
    /\ Len(DictGet(df.data, o \o "_value")) = Len(Wrapped[o])
    /\ DictGet(df.data, o \o "_confidence") =
          [i \in DOMAIN Wrapped[o] |-> Wrapped[o][i].confidence]
FourColumnsPerOutput(df) ==
    /\ ~df.raised
    /\ Len(df.columns) = 4 * Cardinality(DOMAIN Wrapped)
    /\ \A o \in DOMAIN Wrapped : ColumnGroupOf(df, o)

C5_PlotRaisesOnUnknownDecision ==
    view.op = "plot" =>
        /\ view.ret.raised <=> view.arg \notin DictKeys(map(result))
        /\ view.ret.raised => (~view.ret.drawn /\ view.ret.bars = <<>>)
        /\ ~view.ret.raised => view.ret.drawn

C5_Witness ==
    /\ view.op = "plot"
    /\ view.ret.raised
    /\ view.arg \notin DictKeys(map(result))
    /\ DictKeys(map(result)) # {}

\* C6: in the static chart every bar with score >= 0 has the positive colour and
\* every bar with score < 0 the negative colour, the interactive chart colours
\* the same scores the same way, and the two never disagree on a score's colour.
C6_ViewsAgreeOnColour ==
    (view.op = "plot" /\ ~view.ret.raised) =>
        \A i \in DOMAIN view.ret.bars :
            LET bar == view.ret.bars[i]
                row == bokehPlot(view.arg, <<[feature |-> [name |-> bar.label],
                                             score |-> bar.width]>>).rows[1]
            IN /\ FGe(bar.width, F(0)) =>
                    (bar.color = "#13ba3c" /\ row.color = "#13ba3c")
               /\ FLt(bar.width, F(0)) =>
                    (bar.color = "#ee0000" /\ row.color = "#ee0000")
               /\ bar.color = row.color

\* C10: no view call changes the wrapped saliency result, and every map() call
\* returns a mapping equal to the one its first call returned.
C10_ViewsLeaveResultUnchanged ==
    /\ [][result' = result]_vars
    /\ [](view.op = "map" => (firstMap.set /\ view.ret = firstMap.value))

C10_Witness ==
    /\ view.op = "plot"
    /\ ~view.ret.raised
    /\ Len(view.ret.bars) = 2
    /\ firstMap.set

\* ------------------------------------------------------------------ explain claims
Returned == {k \in DOMAIN log : log[k].outcome = "returned"}
SameCall(i, j) ==
    /\ log[i].inputs = log[j].inputs
    /\ log[i].outputs = log[j].outputs
    /\ log[i].model = log[j].model
SameBuild(i, j) == explainers[log[i].self].args = explainers[log[j].self].args
\* the calls served earlier by the instance of call k
PriorCalls(k) ==
    LET earlier == SelectSeq([n \in DOMAIN log |-> [at |-> n, entry |-> log[n]]],
                             LAMBDA x : x.at < k /\ x.entry.self = log[k].self)
    IN [n \in DOMAIN earlier |->
          [inputs |-> earlier[n].entry.inputs, outputs |-> earlier[n].entry.outputs,
           model |-> earlier[n].entry.model, outcome |-> earlier[n].entry.outcome]]
NoEngineError(calls) == \A n \in DOMAIN calls : calls[n].outcome # "engine_error"

C3_MapKeysAreOutputNames ==
    view.op = "map" =>
        LET call == log[CHOOSE k \in Returned : \A n \in Returned : n <= k]
            names == {call.outputs.names[n] : n \in DOMAIN call.outputs.names}
        IN /\ DictKeys(view.ret) = names
           /\ Len(view.ret) = Cardinality(names)
           /\ \A o \in names : DictGet(view.ret, o) = call.saliencies[o]

C3_Witness ==
    /\ view.op = "map"
    /\ DictKeys(view.ret) = {"A", "B"}

RECURSIVE Invocations(_)
Invocations(entries) ==
    IF entries = <<>> THEN 0 ELSE Head(entries).invoked + Invocations(Tail(entries))

\* C7: an explain call whose conversion succeeds invokes the engine exactly once,
\* without retry, and returns (a result or the engine's error) only after the
\* invocation completed; a call whose conversion fails never invokes the engine.
C7_OneEngineCallPerExplain ==
    /\ \A k \in DOMAIN log :
          IF log[k].inputs.ok /\ log[k].outputs.ok
          THEN /\ log[k].invoked = 1
               /\ log[k].future \in {"done", "failed"}
               /\ log[k].outcome = "returned" <=> log[k].future = "done"
               /\ log[k].outcome = "engine_error" <=> log[k].future = "failed"
          ELSE /\ log[k].invoked = 0
               /\ log[k].outcome = "conversion_error"
    /\ engineCalls = Invocations(log) + cur.invoked
    /\ cur.invoked <= 1

C7_Witness ==
    /\ \E k \in DOMAIN log : log[k].outcome = "engine_error" /\ log[k].invoked = 1
    /\ \E k \in DOMAIN log : log[k].outcome = "conversion_error"
    /\ engineCalls = 1

\* C8: constructing an explainer never invokes the engine, and the number of
\* engine invocations never exceeds the number of explain calls.
C8_ConstructionNeverInvokesEngine ==
    /\ [][Len(explainers') # Len(explainers) => engineCalls' = engineCalls]_vars
    /\ [](engineCalls <= explainCalls)

C8_Witness ==
    /\ Len(explainers) = 2
    /\ engineCalls = 1
    /\ explainCalls = 1
    /\ pc = "idle"

\* the option a caller supplied, or the documented default
Supplied(kwargs, name, default) ==
    IF name \in DOMAIN kwargs THEN kwargs[name] ELSE default
Known(kwargs) == [n \in DOMAIN kwargs \cap KnownOptions |-> kwargs[n]]

====
